---- MODULE Spec2Model ----
(***************************************************************************)
(* zksync-telemetry: the property builder (src/src/properties.rs), the      *)
(* telemetry facade and the process registry (src/src/telemetry.rs).        *)
(*                                                                          *)
(* Two specifications share this module:                                    *)
(*   PropsSpec  one TelemetryProps builder driven through its public API;   *)
(*   Spec       init_telemetry / get_telemetry / track_event / track_error  *)
(*              called from several execution contexts against the          *)
(*              TELEMETRY cell and the process-wide Sentry hub.             *)
(***************************************************************************)
EXTENDS Integers, Sequences, FiniteSets, TLC

VARIABLES
    builder,     \* Option<TelemetryProps>: the builder a caller owns (None once moved)
    hadPresent,  \* ghost: an insert with a present value happened since construction
    bLast,       \* ghost: the last builder operation, its arguments and the builder before it
    out,         \* Option: what the last take / to_inner / to_map returned
    TELEMETRY,   \* static TELEMETRY: OnceCell<Telemetry>
    sentry,      \* process-wide Sentry state: the hub's bound client, scope tags, closed clients
    pc,          \* per caller: position inside its init_telemetry call
    built,       \* per caller: the Telemetry its call constructed and has not yet handed over
    initRes,     \* per caller: what its init_telemetry call returned
    stored,      \* ghost: every facade the registry write ever stored, with the credentials it was built from
    creds,       \* ghost: per caller, the collector credentials of the init_telemetry call in progress
    last         \* ghost: the last facade / registry operation, its inputs and its collector calls

propsVars == <<builder, hadPresent, bLast, out>>
teleVars  == <<TELEMETRY, sentry, pc, built, initRes, stored, creds, last>>
vars      == <<builder, hadPresent, bLast, out,
              TELEMETRY, sentry, pc, built, initRes, stored, creds, last>>

-----------------------------------------------------------------------------
(* Bounds *)

MaxArrayLen == 2      \* longest Vec handed to from_array
NumCallers  == 2      \* execution contexts that each call init_telemetry once
MaxEventKeys == 2     \* most keys in the properties handed to track_event

-----------------------------------------------------------------------------
(* Option<T> and serde_json::Map, Value *)

None    == <<>>
Some(x) == <<x>>

\* serde_json::Map<String, Value>: a function from the keys present to their values
EmptyMap == <<>>

MapInsert(map, key, value) ==
    [k \in (DOMAIN map) \cup {key} |-> IF k = key THEN value ELSE map[k]]

\* serde_json::Value: the variant and, in the field of that variant, its payload
VNull      == [tag |-> "Null",   s |-> "", n |-> 0, b |-> FALSE, a |-> <<>>, o |-> EmptyMap]
VString(x) == [tag |-> "String", s |-> x,  n |-> 0, b |-> FALSE, a |-> <<>>, o |-> EmptyMap]
VNumber(x) == [tag |-> "Number", s |-> "", n |-> x, b |-> FALSE, a |-> <<>>, o |-> EmptyMap]
VBool(x)   == [tag |-> "Bool",   s |-> "", n |-> 0, b |-> x,     a |-> <<>>, o |-> EmptyMap]
VArray(x)  == [tag |-> "Array",  s |-> "", n |-> 0, b |-> FALSE, a |-> x,    o |-> EmptyMap]
VObject(x) == [tag |-> "Object", s |-> "", n |-> 0, b |-> FALSE, a |-> <<>>, o |-> x]

-----------------------------------------------------------------------------
(* TelemetryProps: constructors *)

TelemetryProps_new == [inner |-> VObject(EmptyMap)]

from_str(value)    == [inner |-> VString(value)]

from_string(value) == [inner |-> VString(value)]

from_number(value) == [inner |-> VNumber(value)]

from_bool(value)   == [inner |-> VBool(value)]

\* The values a caller passes where T: Into<TelemetryProps> is expected, tagged
\* with their Rust type.
RStr(x)    == [ty |-> "&str",   s |-> x,  n |-> 0, b |-> FALSE, vec |-> <<>>, props |-> TelemetryProps_new]
RString(x) == [ty |-> "String", s |-> x,  n |-> 0, b |-> FALSE, vec |-> <<>>, props |-> TelemetryProps_new]
RNumber(x) == [ty |-> "Number", s |-> "", n |-> x, b |-> FALSE, vec |-> <<>>, props |-> TelemetryProps_new]
RBool(x)   == [ty |-> "bool",   s |-> "", n |-> 0, b |-> x,     vec |-> <<>>, props |-> TelemetryProps_new]
RVec(x)    == [ty |-> "Vec",    s |-> "", n |-> 0, b |-> FALSE, vec |-> x,    props |-> TelemetryProps_new]
RProps(x)  == [ty |-> "TelemetryProps", s |-> "", n |-> 0, b |-> FALSE, vec |-> <<>>, props |-> x]

\* impl From<..> for TelemetryProps, for the scalar element types
IntoScalar(t) ==
    CASE t.ty = "&str"   -> from_str(t.s)
      [] t.ty = "String" -> from_string(t.s)
      [] t.ty = "Number" -> from_number(t.n)
      [] t.ty = "bool"   -> from_bool(t.b)
      [] t.ty = "TelemetryProps" -> t.props

\* values.into_iter().map(|v| v.into().inner).collect()
from_array(values) ==
    [inner |-> VArray([i \in 1..Len(values) |-> IntoScalar(values[i]).inner])]

\* T: Into<TelemetryProps>
Into(t) ==
    IF t.ty = "Vec" THEN from_array(t.vec) ELSE IntoScalar(t)

-----------------------------------------------------------------------------
(* TelemetryProps: insert, insert_with, to_inner, to_map, take *)

\* A plausible slip: an absent value stored as a null under the key.
insert_null_on_none(self, key, value) ==
    IF value # None
    THEN IF self.inner.tag = "Object"
         THEN [inner |-> VObject(MapInsert(self.inner.o, key, Into(value[1]).inner))]
         ELSE [inner |-> VObject(MapInsert(EmptyMap, key, Into(value[1]).inner))]
    ELSE IF self.inner.tag = "Object"
         THEN [inner |-> VObject(MapInsert(self.inner.o, key, VNull))]
         ELSE self

\* A plausible slip: a non-object root is kept instead of being replaced.
insert_keep_root(self, key, value) ==
    IF value # None /\ self.inner.tag = "Object"
    THEN [inner |-> VObject(MapInsert(self.inner.o, key, Into(value[1]).inner))]
    ELSE self

insert(self, key, value) ==
    IF value # None
    THEN IF self.inner.tag = "Object"
         THEN [inner |-> VObject(MapInsert(self.inner.o, key, Into(value[1]).inner))]
         ELSE [inner |-> VObject(MapInsert(EmptyMap, key, Into(value[1]).inner))]
    ELSE self

\* The closures f: FnOnce(V) -> Option<RV> the model hands to insert_with.
Transforms == {"some", "none", "nonempty"}

ApplyTransform(f, v) ==
    CASE f = "some" -> Some(v)
      [] f = "none" -> None
      [] f = "nonempty" -> IF v.ty \in {"&str", "String"} /\ v.s = "" THEN None ELSE Some(v)

insert_with(self, k, v, f) == insert(self, k, ApplyTransform(f, v))

to_inner(self) == self.inner

\* A plausible slip: a non-object root wrapped under a "value" key.
to_map_wrap(self) ==
    IF self.inner.tag = "Object" THEN Some(self.inner.o)
    ELSE Some(MapInsert(EmptyMap, "value", self.inner))

to_map(self) ==
    IF self.inner.tag = "Object" THEN Some(self.inner.o) ELSE None

\* mem::take(self): the old builder is returned, Default::default() is left behind
take(self) == [returned |-> self, left |-> TelemetryProps_new]

-----------------------------------------------------------------------------
(* Inputs of the builder specification *)

Keys    == {"k1", "k2"}
Strs    == {"", "s1"}
Numbers == {1, 2}

ElemInputs == {RStr("s1"), RNumber(1)}

RECURSIVE SeqsUpTo(_, _)
SeqsUpTo(S, n) ==
    IF n = 0 THEN {<<>>}
    ELSE LET shorter == SeqsUpTo(S, n - 1)
         IN shorter \cup {Append(s, e) : s \in {t \in shorter : Len(t) = n - 1}, e \in S}

VecInputs == SeqsUpTo(ElemInputs, MaxArrayLen)

InsertInputs ==
    {RStr(s) : s \in Strs} \cup {RString("s1")} \cup {RNumber(n) : n \in Numbers}
    \cup {RBool(TRUE)} \cup {RVec(s) : s \in VecInputs}
    \cup {RProps(from_number(2)), RProps(insert(TelemetryProps_new, "k1", Some(RStr("s1"))))}

OptInputs == {None} \cup {Some(t) : t \in InsertInputs}

BLast(op, key, value) == [op |-> op, key |-> key, value |-> value, before |-> builder]

-----------------------------------------------------------------------------
(* Actions of the builder specification *)

PropsInit ==
    /\ builder = Some(TelemetryProps_new)
    /\ hadPresent = FALSE
    /\ bLast = [op |-> "new", key |-> "", value |-> None, before |-> None]
    /\ out = None

New ==
    /\ builder' = Some(TelemetryProps_new)
    /\ bLast' = BLast("new", "", None)
    /\ hadPresent' = FALSE
    /\ out' = None
    /\ UNCHANGED teleVars

FromStr ==
    /\ \E value \in Strs :
        /\ builder' = Some(from_str(value))
        /\ bLast' = BLast("from_str", "", None)
    /\ hadPresent' = FALSE
    /\ out' = None
    /\ UNCHANGED teleVars

FromString ==
    /\ \E value \in Strs :
        /\ builder' = Some(from_string(value))
        /\ bLast' = BLast("from_string", "", None)
    /\ hadPresent' = FALSE
    /\ out' = None
    /\ UNCHANGED teleVars

FromNumber ==
    /\ \E value \in Numbers :
        /\ builder' = Some(from_number(value))
        /\ bLast' = BLast("from_number", "", None)
    /\ hadPresent' = FALSE
    /\ out' = None
    /\ UNCHANGED teleVars

FromBool ==
    /\ \E value \in BOOLEAN :
        /\ builder' = Some(from_bool(value))
        /\ bLast' = BLast("from_bool", "", None)
    /\ hadPresent' = FALSE
    /\ out' = None
    /\ UNCHANGED teleVars

FromArray ==
    /\ \E values \in VecInputs :
        /\ builder' = Some(from_array(values))
        /\ bLast' = BLast("from_array", "", None)
    /\ hadPresent' = FALSE
    /\ out' = None
    /\ UNCHANGED teleVars

Insert ==
    /\ builder # None
    /\ \E key \in Keys, value \in OptInputs :
        /\ builder' = Some(insert(builder[1], key, value))
        /\ hadPresent' = (hadPresent \/ value # None)
        /\ bLast' = BLast("insert", key, value)
    /\ out' = None
    /\ UNCHANGED teleVars

InsertWith ==
    /\ builder # None
    /\ \E k \in Keys, v \in {RStr(s) : s \in Strs} \cup {RNumber(1)}, f \in Transforms :
        /\ builder' = Some(insert_with(builder[1], k, v, f))
        /\ hadPresent' = (hadPresent \/ ApplyTransform(f, v) # None)
        /\ bLast' = BLast("insert_with", k, ApplyTransform(f, v))
    /\ out' = None
    /\ UNCHANGED teleVars

Take ==
    /\ builder # None
    /\ builder' = Some(take(builder[1]).left)
    /\ out' = Some(take(builder[1]).returned)
    /\ bLast' = BLast("take", "", None)
    /\ UNCHANGED hadPresent
    /\ UNCHANGED teleVars

ToInner ==
    /\ builder # None
    /\ out' = Some(to_inner(builder[1]))
    /\ builder' = None
    /\ bLast' = BLast("to_inner", "", None)
    /\ UNCHANGED hadPresent
    /\ UNCHANGED teleVars

ToMap ==
    /\ builder # None
    /\ out' = Some(to_map(builder[1]))
    /\ builder' = None
    /\ bLast' = BLast("to_map", "", None)
    /\ UNCHANGED hadPresent
    /\ UNCHANGED teleVars

PropsNext ==
    \/ New
    \/ FromStr
    \/ FromString
    \/ FromNumber
    \/ FromBool
    \/ FromArray
    \/ Insert
    \/ InsertWith
    \/ Take
    \/ ToInner
    \/ ToMap

-----------------------------------------------------------------------------
(* Telemetry: construction *)

Callers == 1..NumCallers

OS == "linux"                        \* std::env::consts::OS, fixed at build time
CARGO_PKG_VERSION == "pkg-version"   \* env!("CARGO_PKG_VERSION"), fixed at build time

\* TelemetryConfig::new(config_name, custom_config_path): the resolved config.
\* Resolution never fails; enabled is whatever the environment and the config
\* file resolve to, instance_id the persisted identifier.
TelemetryConfig_new == {[enabled |-> e, instance_id |-> "instance-1"] : e \in BOOLEAN}

Call(collector, method, event, client, ok) ==
    [collector |-> collector, method |-> method, event |-> event, client |-> client, ok |-> ok]

NoEvent == [event |-> "", distinct_id |-> "", props |-> EmptyMap]

\* sentry::init((dsn, options)): a new client is bound to the process hub
sentry_init(s, client) == [s EXCEPT !.client = Some(client)]

\* sentry::configure_scope(|scope| { scope.set_tag(..) x4 })
configure_scope(s, app_name, app_version) ==
    [s EXCEPT !.tags =
        MapInsert(MapInsert(MapInsert(MapInsert(@,
            "app", VString(app_name)),
            "app_version", VString(app_version)),
            "platform", VString(OS)),
            "zksync_telemetry_version", VString(CARGO_PKG_VERSION))]

\* Drop for sentry::ClientInitGuard: the guard's client is closed
ClientInitGuard_drop(s, guard) == [s EXCEPT !.closed = @ \cup {guard}]

\* A plausible slip: collector handles created without looking at config.enabled.
Telemetry_new_ignoring_enabled(app_name, app_version, config, posthog_key, sentry_dsn, s, client) ==
    LET posthog == IF posthog_key # None
                   THEN Some([api_key |-> posthog_key[1],
                              default_distinct_id |-> config.instance_id,
                              enable_panic_capturing |-> (sentry_dsn = None)])
                   ELSE None
        sentry_guard == IF sentry_dsn # None THEN Some(client) ELSE None
    IN [telemetry |-> [app_name |-> app_name, app_version |-> app_version, config |-> config,
                       posthog |-> posthog, sentry_guard |-> sentry_guard],
        sentry |-> IF sentry_dsn # None
                   THEN configure_scope(sentry_init(s, client), app_name, app_version)
                   ELSE s,
        calls |-> (IF posthog_key # None
                   THEN <<Call("posthog", "client", NoEvent, None, TRUE)>> ELSE <<>>)
                  \o (IF sentry_dsn # None
                      THEN <<Call("sentry", "init", NoEvent, Some(client), TRUE)>> ELSE <<>>)]

\* Telemetry::new. s is the process-wide Sentry state it runs against and client
\* the identity of the Sentry client it would create; the result carries the
\* facade, the Sentry state it leaves and the collector calls it made.
\* sentry::init and configure_scope follow each other with no await between
\* them, so the two are one step; the hub they act on is the process hub.
Telemetry_new(app_name, app_version, config, posthog_key, sentry_dsn, s, client) ==
    LET posthog == IF config.enabled /\ posthog_key # None
                   THEN Some([api_key |-> posthog_key[1],
                              default_distinct_id |-> config.instance_id,
                              enable_panic_capturing |-> (sentry_dsn = None)])
                   ELSE None
        sentry_guard == IF config.enabled /\ sentry_dsn # None THEN Some(client) ELSE None
    IN [telemetry |-> [app_name |-> app_name, app_version |-> app_version, config |-> config,
                       posthog |-> posthog, sentry_guard |-> sentry_guard],
        sentry |-> IF config.enabled /\ sentry_dsn # None
                   THEN configure_scope(sentry_init(s, client), app_name, app_version)
                   ELSE s,
        calls |-> (IF config.enabled /\ posthog_key # None
                   THEN <<Call("posthog", "client", NoEvent, None, TRUE)>> ELSE <<>>)
                  \o (IF config.enabled /\ sentry_dsn # None
                      THEN <<Call("sentry", "init", NoEvent, Some(client), TRUE)>> ELSE <<>>)]

-----------------------------------------------------------------------------
(* Telemetry: track_event, track_error *)

\* posthog_rs::Event::new(event_name, distinct_id)
Event_new(event_name, distinct_id) ==
    [event |-> event_name, distinct_id |-> distinct_id, props |-> EmptyMap]

\* posthog_rs::Exception::new(error, distinct_id)
Exception_new(error, distinct_id) ==
    [event |-> "$exception", distinct_id |-> distinct_id,
     props |-> MapInsert(EmptyMap, "$exception_message", VString(error))]

\* EventBase::insert_prop(key, value): the value is serialised and stored under
\* key, replacing what was there. Serialising a serde_json::Value or a &str
\* cannot fail, so the map_err(..)? after each call is never taken.
insert_prop(event, key, value) ==
    [event EXCEPT !.props = MapInsert(@, key, value)]

add_posthog_default_props(event, app_name, app_version) ==
    insert_prop(insert_prop(insert_prop(insert_prop(event,
        "app", VString(app_name)),
        "app_version", VString(app_version)),
        "platform", VString(OS)),
        "zksync_telemetry_version", VString(CARGO_PKG_VERSION))

\* for (key, value) in props_map { event.insert_prop(key, value)? }
RECURSIVE InsertProps(_, _, _)
InsertProps(event, props_map, keys) ==
    IF keys = {} THEN event
    ELSE LET key == CHOOSE k \in keys : TRUE
         IN InsertProps(insert_prop(event, key, props_map[key]), props_map, keys \ {key})

Result(res, calls) == [res |-> res, calls |-> calls]

\* A plausible slip: the defaults written first, the caller's properties after.
track_event_defaults_first(self, event_name, properties, capture_ok) ==
    IF ~self.config.enabled THEN Result("Ok", <<>>)
    ELSE IF self.posthog # None
    THEN LET event0 == add_posthog_default_props(
                           Event_new(event_name, self.config.instance_id),
                           self.app_name, self.app_version)
             props_map == to_map(properties)
             event == IF props_map # None
                      THEN InsertProps(event0, props_map[1], DOMAIN props_map[1])
                      ELSE event0
         IN Result(IF capture_ok THEN "Ok" ELSE "SendError",
                   <<Call("posthog", "capture", event, None, capture_ok)>>)
    ELSE Result("Ok", <<>>)

\* A plausible slip: the collector's failure swallowed.
track_event_swallow(self, event_name, properties, capture_ok) ==
    IF ~self.config.enabled THEN Result("Ok", <<>>)
    ELSE IF self.posthog # None
    THEN LET event0 == Event_new(event_name, self.config.instance_id)
             props_map == to_map(properties)
             event1 == IF props_map # None
                       THEN InsertProps(event0, props_map[1], DOMAIN props_map[1])
                       ELSE event0
             event == add_posthog_default_props(event1, self.app_name, self.app_version)
         IN Result("Ok", <<Call("posthog", "capture", event, None, capture_ok)>>)
    ELSE Result("Ok", <<>>)

\* Telemetry::track_event. capture_ok is whether client.capture(event) succeeds.
track_event(self, event_name, properties, capture_ok) ==
    IF ~self.config.enabled THEN Result("Ok", <<>>)
    ELSE IF self.posthog # None
    THEN LET event0 == Event_new(event_name, self.config.instance_id)
             props_map == to_map(properties)
             event1 == IF props_map # None
                       THEN InsertProps(event0, props_map[1], DOMAIN props_map[1])
                       ELSE event0
             event == add_posthog_default_props(event1, self.app_name, self.app_version)
         IN Result(IF capture_ok THEN "Ok" ELSE "SendError",
                   <<Call("posthog", "capture", event, None, capture_ok)>>)
    ELSE Result("Ok", <<>>)

\* sentry::capture_error(error): the error goes to the client bound to the
\* hub, with the scope's tags; a closed client drops it
capture_error(s, error) ==
    Call("sentry", "capture_error",
         [event |-> error, distinct_id |-> "", props |-> s.tags],
         s.client, s.client # None /\ s.client[1] \notin s.closed)

\* A plausible slip: the error sent to both collectors when both are configured.
track_error_both(self, error, capture_ok, s) ==
    IF ~self.config.enabled THEN Result("Ok", <<>>)
    ELSE LET exception == add_posthog_default_props(
                              Exception_new(error, self.config.instance_id),
                              self.app_name, self.app_version)
             toSentry == IF self.sentry_guard # None THEN <<capture_error(s, error)>> ELSE <<>>
             toPosthog == IF self.posthog # None
                          THEN <<Call("posthog", "capture_exception", exception, None, capture_ok)>>
                          ELSE <<>>
         IN Result(IF self.posthog # None /\ ~capture_ok THEN "SendError" ELSE "Ok",
                   toSentry \o toPosthog)

\* Telemetry::track_error. capture_ok is whether capture_exception succeeds.
track_error(self, error, capture_ok, s) ==
    IF ~self.config.enabled THEN Result("Ok", <<>>)
    ELSE IF self.sentry_guard # None
    THEN Result("Ok", <<capture_error(s, error)>>)
    ELSE IF self.posthog # None
    THEN LET exception == add_posthog_default_props(
                              Exception_new(error, self.config.instance_id),
                              self.app_name, self.app_version)
         IN Result(IF capture_ok THEN "Ok" ELSE "SendError",
                   <<Call("posthog", "capture_exception", exception, None, capture_ok)>>)
    ELSE Result("Ok", <<>>)

-----------------------------------------------------------------------------
(* The registry: OnceCell<Telemetry> *)

\* A plausible slip: a plain store in place of the set-once primitive.
OnceCell_set_overwrite(cell, value) == [cell |-> Some(value), res |-> "Ok"]

\* OnceCell::set(value): Ok(()) if the cell was empty, Err(value) if it was full
OnceCell_set(cell, value) ==
    IF cell = None
    THEN [cell |-> Some(value), res |-> "Ok"]
    ELSE [cell |-> cell, res |-> "Err"]

\* OnceCell::get()
get_telemetry == TELEMETRY

-----------------------------------------------------------------------------
(* Inputs of the facade specification *)

\* (app_name, app_version): each caller passes its own identity, odd callers
\* the first and even callers the second
Apps == <<[name |-> "app-a", version |-> "1.0.0"], [name |-> "app-b", version |-> "2.0.0"]>>

AppOf(c) == Apps[((c - 1) % Len(Apps)) + 1]

PosthogKeys == {None, Some("fake-key")}
SentryDsns  == {None, Some("https://public@example.com/1")}

EventNames == {"test_event"}
Errors     == {"test error"}

DefaultKeys == {"app", "app_version", "platform", "zksync_telemetry_version"}
EventKeys   == {"k1", "app", "zksync_telemetry_version"}

EventValue(k) == IF k = "k1" THEN RNumber(7) ELSE RStr("from-caller")

\* new().insert(k, Some(..)) for every k of keys
RECURSIVE BuildProps(_, _)
BuildProps(p, keys) ==
    IF keys = {} THEN p
    ELSE LET key == CHOOSE k \in keys : TRUE
         IN BuildProps(insert(p, key, Some(EventValue(key))), keys \ {key})

\* The properties handed to track_event: objects of at most MaxEventKeys keys,
\* and the builders whose root is a string, a number, a bool or an array.
EventProps ==
    {BuildProps(TelemetryProps_new, K) :
        K \in {S \in SUBSET EventKeys : Cardinality(S) <= MaxEventKeys}}
    \cup {from_str("s1"), from_number(1), from_bool(TRUE), from_array(<<RStr("s1"), RNumber(1)>>)}

Last(op, res, calls, properties, capture_ok, facade) ==
    [op |-> op, res |-> res, calls |-> calls, properties |-> properties,
     capture_ok |-> capture_ok, facade |-> facade]

-----------------------------------------------------------------------------
(* Actions of the facade specification *)

TeleInit ==
    /\ TELEMETRY = None
    /\ sentry = [client |-> None, tags |-> EmptyMap, closed |-> {}]
    /\ pc = [c \in Callers |-> "start"]
    /\ built = [c \in Callers |-> None]
    /\ initRes = [c \in Callers |-> "none"]
    /\ stored = <<>>
    /\ creds = [c \in Callers |-> <<None, None>>]
    /\ last = Last("start", "Ok", <<>>, None, TRUE, None)

\* init_telemetry, up to the await of Telemetry::new
InitNew(c) ==
    /\ pc[c] = "start"
    /\ \E config \in TelemetryConfig_new,
          posthog_key \in PosthogKeys, sentry_dsn \in SentryDsns :
        LET r == Telemetry_new(AppOf(c).name, AppOf(c).version, config,
                               posthog_key, sentry_dsn, sentry, c)
        IN /\ built' = [built EXCEPT ![c] = Some(r.telemetry)]
           /\ sentry' = r.sentry
           /\ creds' = [creds EXCEPT ![c] = <<posthog_key, sentry_dsn>>]
           /\ last' = Last("Telemetry::new", "Ok", r.calls, None, TRUE, Some(r.telemetry))
    /\ pc' = [pc EXCEPT ![c] = "built"]
    /\ UNCHANGED <<TELEMETRY, initRes, stored>>
    /\ UNCHANGED propsVars

\* init_telemetry, TELEMETRY.set(telemetry).map_err(..): on Err the facade
\* handed back is dropped, and with it its Sentry guard
InitSet(c) ==
    /\ pc[c] = "built"
    /\ LET r == OnceCell_set(TELEMETRY, built[c][1])
       IN /\ TELEMETRY' = r.cell
          /\ IF r.res = "Ok"
             THEN /\ initRes' = [initRes EXCEPT ![c] = "Ok"]
                  /\ stored' = Append(stored, [telemetry |-> built[c][1], creds |-> creds[c]])
                  /\ UNCHANGED sentry
             ELSE /\ initRes' = [initRes EXCEPT ![c] = "AlreadySet"]
                  /\ UNCHANGED stored
                  /\ sentry' = IF built[c][1].sentry_guard # None
                               THEN ClientInitGuard_drop(sentry, built[c][1].sentry_guard[1])
                               ELSE sentry
          /\ last' = Last("TELEMETRY.set", IF r.res = "Ok" THEN "Ok" ELSE "AlreadySet",
                          <<>>, None, TRUE, built[c])
    /\ creds' = [creds EXCEPT ![c] = <<None, None>>]
    /\ built' = [built EXCEPT ![c] = None]
    /\ pc' = [pc EXCEPT ![c] = "done"]
    /\ UNCHANGED propsVars

GetTelemetry ==
    /\ last' = Last("get_telemetry", "Ok", <<>>, None, TRUE, get_telemetry)
    /\ UNCHANGED <<TELEMETRY, sentry, pc, built, initRes, stored, creds>>
    /\ UNCHANGED propsVars

\* get_telemetry().unwrap().track_event(event_name, properties)
TrackEvent ==
    /\ get_telemetry # None
    /\ \E event_name \in EventNames, properties \in EventProps, capture_ok \in BOOLEAN :
        LET r == track_event(get_telemetry[1], event_name, properties, capture_ok)
        IN last' = Last("track_event", r.res, r.calls, Some(properties), capture_ok, get_telemetry)
    /\ UNCHANGED <<TELEMETRY, sentry, pc, built, initRes, stored, creds>>
    /\ UNCHANGED propsVars

\* get_telemetry().unwrap().track_error(error)
TrackError ==
    /\ get_telemetry # None
    /\ \E error \in Errors, capture_ok \in BOOLEAN :
        LET r == track_error(get_telemetry[1], error, capture_ok, sentry)
        IN last' = Last("track_error", r.res, r.calls, None, capture_ok, get_telemetry)
    /\ UNCHANGED <<TELEMETRY, sentry, pc, built, initRes, stored, creds>>
    /\ UNCHANGED propsVars

Next ==
    \/ \E c \in Callers : InitNew(c)
    \/ \E c \in Callers : InitSet(c)
    \/ GetTelemetry
    \/ TrackEvent
    \/ TrackError

Init == TeleInit /\ PropsInit

Spec == Init /\ [][Next]_vars

PropsSpec == Init /\ [][PropsNext]_vars

-----------------------------------------------------------------------------
(* Vocabulary of the properties *)

Succeeded == {c \in Callers : initRes[c] = "Ok"}
Returned  == {c \in Callers : pc[c] = "done"}

\* The facade an operation recorded in last ran on
F == last.facade[1]

Tracked(op) == last.op = op /\ last.facade # None

\* The four default fields a facade stamps on what it sends
DefaultValue(f, k) ==
    CASE k = "app" -> VString(f.app_name)
      [] k = "app_version" -> VString(f.app_version)
      [] k = "platform" -> VString(OS)
      [] k = "zksync_telemetry_version" -> VString(CARGO_PKG_VERSION)

CarriesDefaults(props, f) ==
    \A k \in DefaultKeys : k \in DOMAIN props /\ props[k] = DefaultValue(f, k)

Collectors(calls) == {calls[i].collector : i \in 1..Len(calls)}

SentryUp == sentry.client # None /\ sentry.client[1] \notin sentry.closed

\* The serde_json::Value a present insert argument stands for
RECURSIVE Converted(_)
Converted(t) ==
    CASE t.ty \in {"&str", "String"} -> VString(t.s)
      [] t.ty = "Number" -> VNumber(t.n)
      [] t.ty = "bool" -> VBool(t.b)
      [] t.ty = "Vec" -> VArray([i \in 1..Len(t.vec) |-> Converted(t.vec[i])])
      [] t.ty = "TelemetryProps" -> t.props.inner

WasInsert == bLast.op \in {"insert", "insert_with"}

-----------------------------------------------------------------------------
(* Properties *)

\* C1: among concurrent init_telemetry calls, in every interleaving, at most
\* one has returned success; as soon as any call has returned exactly one has
\* succeeded, and every other returned call got the 'already set' error.
C1_ExactlyOneInitSucceeds ==
    /\ Cardinality(Succeeded) <= 1
    /\ Returned # {} => Cardinality(Succeeded) = 1
    /\ \A c \in Returned \ Succeeded : initRes[c] = "AlreadySet"

C1_Witness ==
    /\ Returned = Callers
    /\ initRes[1] = "AlreadySet"

\* C2: the registry is write-once: it is absent exactly while no init_telemetry
\* has succeeded, afterwards it holds the facade of the first successful init,
\* get_telemetry returns just that, and a rejected init stores nothing.
C2_RegistryWriteOnce ==
    /\ Len(stored) <= 1
    /\ (stored = <<>>) <=> (Succeeded = {})
    /\ TELEMETRY = (IF stored = <<>> THEN None ELSE Some(stored[1].telemetry))
    /\ last.op = "get_telemetry" =>
          last.facade = (IF stored = <<>> THEN None ELSE Some(stored[1].telemetry))
    /\ (last.op = "TELEMETRY.set" /\ last.res = "AlreadySet") => stored # <<>>

C2_Witness ==
    /\ last.op = "get_telemetry"
    /\ last.facade # None
    /\ \E c \in Callers : initRes[c] = "AlreadySet"

\* C3: a facade whose config is disabled holds no collector handle whatever
\* credentials it was given, its construction made no collector call, and
\* track_event / track_error on it return Ok with no collector call.
C3_DisabledFacadeIsInert ==
    /\ \A c \in Callers :
          (built[c] # None /\ ~built[c][1].config.enabled) =>
              built[c][1].posthog = None /\ built[c][1].sentry_guard = None
    /\ (TELEMETRY # None /\ ~TELEMETRY[1].config.enabled) =>
          TELEMETRY[1].posthog = None /\ TELEMETRY[1].sentry_guard = None
    /\ (Tracked("Telemetry::new") /\ ~F.config.enabled) => last.calls = <<>>
    /\ ((Tracked("track_event") \/ Tracked("track_error")) /\ ~F.config.enabled) =>
          last.res = "Ok" /\ last.calls = <<>>

C3_Witness ==
    /\ Tracked("track_event")
    /\ ~F.config.enabled
    /\ stored[1].creds[1] # None
    /\ stored[1].creds[2] # None
    /\ last.res = "Ok"

\* C4: on an enabled facade track_error goes to one destination: to Sentry
\* alone when the Sentry guard is present (PostHog configured or not), else to
\* PostHog as one exception carrying the four default fields, else nowhere and
\* the call returns Ok.
C4_ErrorRouting ==
    (Tracked("track_error") /\ F.config.enabled) =>
        /\ F.sentry_guard # None =>
              /\ Len(last.calls) = 1
              /\ last.calls[1].collector = "sentry"
              /\ last.calls[1].method = "capture_error"
        /\ (F.sentry_guard = None /\ F.posthog # None) =>
              /\ Len(last.calls) = 1
              /\ last.calls[1].collector = "posthog"
              /\ last.calls[1].method = "capture_exception"
              /\ CarriesDefaults(last.calls[1].event.props, F)
        /\ (F.sentry_guard = None /\ F.posthog = None) =>
              last.res = "Ok" /\ last.calls = <<>>

C4_Witness ==
    /\ Tracked("track_error")
    /\ F.config.enabled
    /\ F.sentry_guard # None
    /\ F.posthog # None
    /\ Len(last.calls) = 1

C6_DefaultsWin ==
    (Tracked("track_event") /\ F.config.enabled /\ F.posthog # None) =>
        /\ Len(last.calls) = 1
        /\ LET props == last.calls[1].event.props
               root  == last.properties[1].inner
               given == IF root.tag = "Object" THEN root.o ELSE EmptyMap
           IN /\ CarriesDefaults(props, F)
              /\ \A k \in (DOMAIN given) \ DefaultKeys :
                    k \in DOMAIN props /\ props[k] = given[k]
              /\ DOMAIN props = DefaultKeys \cup DOMAIN given

C6_Witness ==
    /\ Tracked("track_event")
    /\ F.config.enabled
    /\ F.posthog # None
    /\ last.properties[1].inner.tag = "Object"
    /\ {"app", "k1"} \subseteq DOMAIN last.properties[1].inner.o
    /\ last.calls[1].event.props["app"] # last.properties[1].inner.o["app"]

\* C7 as stated: get_telemetry, track_event, track_error, and every step of an
\* init_telemetry call that is rejected, leave the registry slot and the
\* process-wide collector state as they were.
C7_OnlyRegistryWriteMutates ==
    [][ /\ last'.op \in {"get_telemetry", "track_event", "track_error"} =>
              UNCHANGED <<TELEMETRY, sentry>>
        /\ (last'.op = "TELEMETRY.set" /\ last'.res = "AlreadySet") =>
              UNCHANGED <<TELEMETRY, sentry>>
        /\ (last'.op = "Telemetry::new" /\ TELEMETRY # None) =>
              UNCHANGED <<TELEMETRY, sentry>>
      ]_vars

\* C8: insert(key, None) leaves the builder as it was; insert(key, Some(v)) on
\* an object root puts the converted v under key, replacing what was there,
\* and leaves every other key as it was.
C8_InsertNoneIsNoOp ==
    (WasInsert /\ bLast.before # None /\ builder # None) =>
        LET before == bLast.before[1].inner
            after  == builder[1].inner
        IN /\ bLast.value = None => builder = bLast.before
           /\ (bLast.value # None /\ before.tag = "Object") =>
                 /\ after.tag = "Object"
                 /\ DOMAIN after.o = (DOMAIN before.o) \cup {bLast.key}
                 /\ after.o[bLast.key] = Converted(bLast.value[1])
                 /\ \A k \in (DOMAIN before.o) \ {bLast.key} : after.o[k] = before.o[k]

C8_Witness ==
    /\ bLast.op = "insert"
    /\ bLast.value = None
    /\ builder # None
    /\ builder[1].inner.tag = "Object"
    /\ bLast.key \in DOMAIN builder[1].inner.o

\* C9: a present insert into a builder whose root is not an object yields an
\* object holding exactly the inserted key; once a present value has been
\* inserted the root is an object.
C9_InsertCoercesRoot ==
    /\ (WasInsert /\ bLast.value # None /\ bLast.before[1].inner.tag # "Object") =>
          /\ builder[1].inner.tag = "Object"
          /\ DOMAIN builder[1].inner.o = {bLast.key}
          /\ builder[1].inner.o[bLast.key] = Converted(bLast.value[1])
    /\ (hadPresent /\ builder # None) => builder[1].inner.tag = "Object"

C9_Witness ==
    /\ bLast.op = "insert"
    /\ bLast.value # None
    /\ bLast.before[1].inner.tag = "Array"
    /\ builder[1].inner.tag = "Object"

\* C10: track_event with properties whose root is not an object forwards one
\* event to PostHog carrying exactly the four default fields, and its result
\* depends only on whether that delivery succeeded.
C10_NonObjectPropsSendDefaultsOnly ==
    (/\ Tracked("track_event")
     /\ F.config.enabled
     /\ F.posthog # None
     /\ last.properties[1].inner.tag # "Object") =>
        /\ Len(last.calls) = 1
        /\ last.calls[1].collector = "posthog"
        /\ DOMAIN last.calls[1].event.props = DefaultKeys
        /\ CarriesDefaults(last.calls[1].event.props, F)
        /\ last.res = (IF last.capture_ok THEN "Ok" ELSE "SendError")

C10_Witness ==
    /\ Tracked("track_event")
    /\ F.config.enabled
    /\ F.posthog # None
    /\ last.properties[1].inner.tag = "Array"
    /\ last.res = "Ok"
    /\ Len(last.calls) = 1

====
